---------------------------- MODULE Spec2Model ----------------------------
(*
  A model of china-festival-mcp.

  The cache layer (src/src/utils/cache.py): SimpleCache (the in-memory entry
  store), PersistentCache (its disk-backed subclass) and the cache_result
  decorator (the cache-aside wrapper).  Its specifications share the store's
  operators:
    Spec       one caller of a SimpleCache: every method call is one step;
    SpecDisk   one caller of a PersistentCache, and restarts of the process;
    SpecLoad   a PersistentCache constructed on any directory;
    SpecConc   several threads: a method is a sequence of steps, the steps of
               its `with self._lock:` block bracketed by acquire and release;
    SpecKey    threads that get and set one and the same key;
    SpecCrash  threads that set one and the same key, and crashes;
    SpecWrap   one caller of functions decorated with @cache_result(), the
               cache key derived from the call.

  The holiday query engine, in its two implementations
  (src/src/server_fastmcp.py and src/scripts/holiday_query.py), which keep
  their own cache of year lists:
    SpecEngine the first query of an engine, on any files of the remote;
    SpecFeed   queries on a remote that comes and goes, as time passes.
*)
EXTENDS Integers, Sequences, FiniteSets, TLC

(***************************************************************************)
(* Bounds of the model.                                                    *)
(***************************************************************************)
MaxSizeBound == 2      \* max_size is drawn from 0..MaxSizeBound
MaxTime == 1           \* the clock runs over 0..MaxTime
MaxTTL == 2            \* the largest explicit ttl argument
MaxCalls == 3          \* method calls made by the single caller of Spec
MaxSizeDisk == 1       \* max_size is drawn from 0..MaxSizeDisk in SpecDisk
MaxCallsDisk == 3      \* method calls made by the single caller of SpecDisk
MaxSizeConc == 1       \* max_size is drawn from 0..MaxSizeConc in SpecConc
MaxCallsConc == 2      \* method calls made by the threads of SpecConc, all together
MaxCallsKey == 3       \* get and set calls made by the threads of SpecKey, all together
DefaultTTL == 1        \* default_ttl, standing for CACHE_TTL

Keys == {"k1", "k2", "k3"}

\* The keys used on the disk-backed store of SpecDisk.
DiskKeys == {"k1", "k2"}

\* Values handed to set(): a list (JSON-native) and a tuple (not JSON-native).
Values == {"list_a", "tuple_a"}

\* Python's None: what get() returns for an absent key.
None == "None"

\* The ttl argument of set(): <<>> is ttl=None, <<n>> is ttl=n.
TTLArgs == {<<>>, <<0>>, <<MaxTTL>>}

\* How the disk write of _save_to_disk ends.
WriteOutcomes == {"ok", "open_failed", "dump_failed"}

Threads == {"t1", "t2"}

NoThread == "none"

\* The keys used by the threads of SpecConc.
ConcKeys == {"k1", "k2"}

\* What the function wrapped by cache_result may return.
FetchResults == Values \cup {None}

VARIABLES
    store,       \* the SimpleCache object: _cache, its dict order, the counters, max_size, default_ttl
    persistent,  \* CACHE_TYPE == 'persistent': the store is a PersistentCache
    disk,        \* cache_dir: the *.cache files, addressed by the key they are named after
    now,         \* time.time()
    budget,      \* ghost: the number of calls the caller still makes
    calls,       \* ghost: the number of calls made so far
    op,          \* ghost: the last call, its arguments and what it returned
    lastSet,     \* ghost: per key, the arguments of the last set() whose entry was not removed since
    lock,        \* self._lock: the thread that holds it, or NoThread
    pc,          \* per thread: the step it takes next
    frame,       \* per thread: the call it is in (or was last in), its arguments and result
    setLog,      \* ghost: the set() calls that have written their entry
    done,        \* ghost: the number of get() and of set() calls of SimpleCache that have run
    impl,        \* which holiday engine runs: src/server_fastmcp.py or scripts/holiday_query.py
    yearCache,   \* the engine's cache of year lists: _holiday_cache, or holiday_cache with cache_expiry
    clock,       \* the engine's wall clock, in ticks
    reply        \* ghost: the last query of the engine, what it consulted and what it returned

vars == <<store, persistent, disk, now, budget, calls, op, lastSet, lock, pc, frame, setLog, done,
          impl, yearCache, clock, reply>>

\* the state of the cache layer, which the holiday engine does not use
storeVars == <<store, persistent, disk, now, budget, calls, op, lastSet, lock, pc, frame, setLog, done>>

\* the state of the holiday engine, which the cache layer does not touch
engineVars == <<impl, yearCache, clock, reply>>

\* what the one-caller specifications leave alone
threadVars == <<lock, pc, frame, setLog, done>>

(***************************************************************************)
(* Helpers on dicts (functions with a finite domain) and on dict order.    *)
(***************************************************************************)
Put(f, k, x) == [y \in DOMAIN f \cup {k} |-> IF y = k THEN x ELSE f[y]]

Remove(f, k) == [y \in DOMAIN f \ {k} |-> f[y]]

RemoveSeq(ord, k) == SelectSeq(ord, LAMBDA x : x # k)

Range(s) == {s[i] : i \in DOMAIN s}

Orderings(S) == {s \in [1..Cardinality(S) -> S] : Range(s) = S}

(***************************************************************************)
(* SimpleCache                                                             *)
(***************************************************************************)
\* SimpleCache.__init__
NewStore(maxSize, defaultTtl) ==
    [cache |-> <<>>, order |-> <<>>, hits |-> 0, misses |-> 0, sets |-> 0,
     deletes |-> 0, max_size |-> maxSize, default_ttl |-> defaultTtl]

\* mutant of Unexpired: the entry still counts at the instant it expires
UnexpiredInclusive(entry, t) == t <= entry.expires

\* `time.time() < entry['expires']` in get
Unexpired(entry, t) == t < entry.expires

\* mutant of NewEntry: the ttl is left out of expires
NewEntryNoTtl(value, current_time, ttl) ==
    [value |-> value, expires |-> current_time, created |-> current_time,
     last_accessed |-> current_time, access_count |-> 0]

\* the dict literal built by set
NewEntry(value, current_time, ttl) ==
    [value |-> value, expires |-> current_time + ttl, created |-> current_time,
     last_accessed |-> current_time, access_count |-> 0]

\* `ttl = self.default_ttl if ttl is None`
EffectiveTTL(s, ttlArg) == IF ttlArg = <<>> THEN s.default_ttl ELSE ttlArg[1]

\* min(self._cache.keys(), key=last_accessed): the first key, in dict order,
\* whose last_accessed is the least.
OldestKey(c, ord) ==
    LET least == CHOOSE m \in {c[k].last_accessed : k \in DOMAIN c} :
                     \A k \in DOMAIN c : m <= c[k].last_accessed
        i == CHOOSE j \in DOMAIN ord :
                 /\ c[ord[j]].last_accessed = least
                 /\ \A h \in 1..(j - 1) : c[ord[h]].last_accessed # least
    IN ord[i]

\* mutant of EvictOldest: the eviction is not counted as a delete
EvictOldestUncounted(s) ==
    IF DOMAIN s.cache = {} THEN s
    ELSE LET oldest_key == OldestKey(s.cache, s.order)
         IN [s EXCEPT !.cache = Remove(@, oldest_key),
                      !.order = RemoveSeq(@, oldest_key)]

\* SimpleCache._evict_oldest
EvictOldest(s) ==
    IF DOMAIN s.cache = {} THEN s
    ELSE LET oldest_key == OldestKey(s.cache, s.order)
         IN [s EXCEPT !.cache = Remove(@, oldest_key),
                      !.order = RemoveSeq(@, oldest_key),
                      !.deletes = @ + 1]

\* mutant of MustEvict: a full store evicts on every set
MustEvictWhenFull(s, k) == Cardinality(DOMAIN s.cache) >= s.max_size

\* the test that guards the eviction in set
MustEvict(s, k) == Cardinality(DOMAIN s.cache) >= s.max_size /\ k \notin DOMAIN s.cache

\* mutant of InsertEntry: an entry already there is kept (the first write wins)
InsertEntryKeepFirst(s, k, entry) ==
    [s EXCEPT !.cache = IF k \in DOMAIN s.cache THEN @ ELSE Put(@, k, entry),
              !.order = IF k \in DOMAIN s.cache THEN @ ELSE Append(@, k),
              !.sets = @ + 1]

\* mutant of InsertEntry: an entry already there is updated field by field, expires left out
InsertEntryInPlace(s, k, entry) ==
    [s EXCEPT !.cache = IF k \in DOMAIN s.cache
                        THEN Put(@, k, [entry EXCEPT !.expires = s.cache[k].expires])
                        ELSE Put(@, k, entry),
              !.order = IF k \in DOMAIN s.cache THEN @ ELSE Append(@, k),
              !.sets = @ + 1]

\* mutant of InsertEntry: the set is not counted
InsertEntryUncounted(s, k, entry) ==
    [s EXCEPT !.cache = Put(@, k, entry),
              !.order = IF k \in DOMAIN s.cache THEN @ ELSE Append(@, k)]

\* `self._cache[key] = {...}; self._sets += 1` in set
InsertEntry(s, k, entry) ==
    [s EXCEPT !.cache = Put(@, k, entry),
              !.order = IF k \in DOMAIN s.cache THEN @ ELSE Append(@, k),
              !.sets = @ + 1]

\* mutant of StoreSet: the call is counted and the entry is not written
StoreSetDropped(s, k, value, ttl, t) == [s EXCEPT !.sets = @ + 1]

\* SimpleCache.set, the whole `with self._lock:` block
StoreSet(s, k, value, ttl, t) ==
    InsertEntry(IF MustEvict(s, k) THEN EvictOldest(s) ELSE s, k, NewEntry(value, t, ttl))

\* SimpleCache.get, the whole `with self._lock:` block: the store after it and the value returned
\* ("KeyError" stands for the exception of entry['value'] on an entry without a value)
\* mutant of Expire: the expired entry goes, the delete counter stays
ExpireUncounted(s, k) == [s EXCEPT !.cache = Remove(@, k), !.order = RemoveSeq(@, k)]

\* `del self._cache[key]; self._deletes += 1` of get, for an expired entry
Expire(s, k) ==
    [s EXCEPT !.cache = Remove(@, k), !.order = RemoveSeq(@, k), !.deletes = @ + 1]

StoreGet(s, k, t) ==
    IF k \in DOMAIN s.cache
    THEN IF Unexpired(s.cache[k], t)
         THEN [store |-> [s EXCEPT !.hits = @ + 1, !.cache[k].last_accessed = t],
               ret |-> IF "value" \in DOMAIN s.cache[k] THEN s.cache[k].value ELSE "KeyError"]
         ELSE [store |-> [Expire(s, k) EXCEPT !.misses = @ + 1],
               ret |-> None]
    ELSE [store |-> [s EXCEPT !.misses = @ + 1], ret |-> None]

\* SimpleCache.delete
StoreDelete(s, k) ==
    IF k \in DOMAIN s.cache
    THEN [store |-> [s EXCEPT !.cache = Remove(@, k), !.order = RemoveSeq(@, k),
                              !.deletes = @ + 1],
          ret |-> TRUE]
    ELSE [store |-> s, ret |-> FALSE]

\* mutant of StoreClear: the entries cleared are not counted as deletes
StoreClearUncounted(s) == [s EXCEPT !.cache = <<>>, !.order = <<>>]

\* mutant of StoreClear: clear starts the statistics anew
StoreClearReset(s) == NewStore(s.max_size, s.default_ttl)

\* SimpleCache.clear
StoreClear(s) ==
    [s EXCEPT !.cache = <<>>, !.order = <<>>,
              !.deletes = @ + Cardinality(DOMAIN s.cache)]

\* mutant of ExpiredKeys: an entry at the instant it expires is not expired
ExpiredKeysStrict(s, t) == {k \in DOMAIN s.cache : t > s.cache[k].expires}

\* the expired_keys of cleanup
ExpiredKeys(s, t) == {k \in DOMAIN s.cache : t >= s.cache[k].expires}

\* SimpleCache.cleanup
StoreCleanup(s, t) ==
    LET expired_keys == ExpiredKeys(s, t)
    IN [store |-> [s EXCEPT !.cache = [k \in DOMAIN s.cache \ expired_keys |-> s.cache[k]],
                            !.order = SelectSeq(@, LAMBDA k : k \notin expired_keys),
                            !.deletes = @ + Cardinality(expired_keys)],
        ret |-> Cardinality(expired_keys)]

\* mutant of GetStatsResult: the expired entries are counted as active too
GetStatsActiveAll(s, t) ==
    LET total_entries == Cardinality(DOMAIN s.cache)
    IN [total_entries |-> total_entries,
        active_entries |-> total_entries,
        expired_entries |-> Cardinality(ExpiredKeys(s, t)),
        max_size |-> s.max_size,
        hits |-> s.hits, misses |-> s.misses, sets |-> s.sets, deletes |-> s.deletes,
        hit_rate |-> IF s.hits + s.misses > 0 THEN <<s.hits, s.hits + s.misses>> ELSE <<0, 1>>]

\* SimpleCache.get_stats (hit_rate is kept as the pair hits, hits + misses)
GetStatsResult(s, t) ==
    LET total_entries == Cardinality(DOMAIN s.cache)
        expired_entries == Cardinality(ExpiredKeys(s, t))
    IN [total_entries |-> total_entries,
        active_entries |-> total_entries - expired_entries,
        expired_entries |-> expired_entries,
        max_size |-> s.max_size,
        hits |-> s.hits, misses |-> s.misses, sets |-> s.sets, deletes |-> s.deletes,
        hit_rate |-> IF s.hits + s.misses > 0 THEN <<s.hits, s.hits + s.misses>> ELSE <<0, 1>>]

(***************************************************************************)
(* PersistentCache                                                         *)
(***************************************************************************)
\* json.dump(..., default=str) followed by json.load, on a cached value:
\* a list comes back as it went, a tuple comes back as a list.
JsonValue(v) == IF v = "tuple_a" THEN "list_a" ELSE v

\* the same round trip on an entry: the numbers come back as they went
JsonEntry(e) == [e EXCEPT !.value = JsonValue(@)]

\* a *.cache file json.load cannot read
CorruptFile == [valid |-> FALSE]

\* the cache_data of _save_to_disk, as json.load returns it
CacheFile(k, e) == [valid |-> TRUE, key |-> k, entry |-> JsonEntry(e)]

\* PersistentCache._save_to_disk; `how` is what the file system does with the write
SaveToDisk(d, s, k, how) ==
    IF k \notin DOMAIN s.cache THEN d
    ELSE CASE how = "ok" -> Put(d, k, CacheFile(k, s.cache[k]))
           [] how = "open_failed" -> d
           [] how = "dump_failed" -> Put(d, k, CorruptFile)

\* the files _load_from_disk keeps: json.load reads them, cache_data['entry']
\* and entry['expires'] are there, and the entry is not expired
Loadable(d, t) ==
    {k \in DOMAIN d : /\ d[k].valid
                      /\ "entry" \in DOMAIN d[k]
                      /\ "expires" \in DOMAIN d[k].entry
                      /\ t < d[k].entry.expires}

\* PersistentCache._load_from_disk: the dict it fills
LoadedCache(d, t) == [k \in Loadable(d, t) |-> d[k].entry]

\* PersistentCache._load_from_disk: the directory it leaves
LoadedDisk(d, t) == [k \in Loadable(d, t) |-> d[k]]

(***************************************************************************)
(* Spec: one caller, every method call one step.                           *)
(***************************************************************************)
NoOp == [name |-> "init", key |-> "", arg |-> "", ret |-> ""]

NoSets == [k \in Keys |-> {}]

IdleFrame ==
    [op |-> "none", key |-> "", value |-> "", ttl |-> 0, ret |-> "",
     fetched |-> FALSE, raised |-> FALSE]

\* no thread has called anything yet
ThreadsIdle ==
    /\ lock = NoThread
    /\ pc = [t \in Threads |-> "idle"]
    /\ frame = [t \in Threads |-> IdleFrame]
    /\ setLog = {}
    /\ done = [gets |-> 0, sets |-> 0]

\* no query has been made of the holiday engine
NoReply == [op |-> "none", left |-> 0, fetched |-> <<>>]

\* the holiday engine before its first query
EngineIdle ==
    /\ impl = "server"
    /\ yearCache = <<>>
    /\ clock = 0
    /\ reply = NoReply

\* lastSet once the store has become s: the sets whose entry was removed are forgotten
Surviving(ls, s) == [k \in Keys |-> IF k \in DOMAIN s.cache THEN ls[k] ELSE {}]

Init ==
    /\ \E m \in 0..MaxSizeBound : store = NewStore(m, DefaultTTL)
    /\ persistent = FALSE
    /\ budget = MaxCalls
    /\ disk = <<>>
    /\ now = 0
    /\ calls = 0
    /\ op = NoOp
    /\ lastSet = NoSets
    /\ ThreadsIdle
    /\ EngineIdle

Get(k) ==
    /\ calls < budget
    /\ LET r == StoreGet(store, k, now)
       IN /\ store' = r.store
          /\ op' = [name |-> "get", key |-> k, arg |-> "", ret |-> r.ret]
          /\ lastSet' = Surviving(lastSet, r.store)
    /\ calls' = calls + 1
    /\ UNCHANGED <<engineVars, persistent, budget, disk, now, lock, pc, frame, setLog, done>>

Set(k, v, ttlArg, how) ==
    /\ calls < budget
    /\ LET ttl == EffectiveTTL(store, ttlArg)
           s1 == StoreSet(store, k, v, ttl, now)
       IN /\ store' = s1
          /\ disk' = IF persistent THEN SaveToDisk(disk, s1, k, how) ELSE disk
          /\ op' = [name |-> "set", key |-> k,
                    arg |-> [value |-> v, ttl |-> ttl, at |-> now, saved |-> how = "ok"],
                    ret |-> ""]
          /\ lastSet' = [Surviving(lastSet, s1) EXCEPT
                              ![k] = {[value |-> v, ttl |-> ttl, at |-> now]}]
    /\ calls' = calls + 1
    /\ UNCHANGED <<engineVars, persistent, budget, now, lock, pc, frame, setLog, done>>

Delete(k) ==
    /\ calls < budget
    /\ LET r == StoreDelete(store, k)
       IN /\ store' = r.store
          /\ disk' = IF persistent /\ r.ret THEN Remove(disk, k) ELSE disk
          /\ op' = [name |-> "delete", key |-> k, arg |-> "", ret |-> r.ret]
          /\ lastSet' = Surviving(lastSet, r.store)
    /\ calls' = calls + 1
    /\ UNCHANGED <<engineVars, persistent, budget, now, lock, pc, frame, setLog, done>>

Clear ==
    /\ calls < budget
    /\ store' = StoreClear(store)
    /\ op' = [name |-> "clear", key |-> "", arg |-> "", ret |-> ""]
    /\ lastSet' = NoSets
    /\ calls' = calls + 1
    /\ UNCHANGED <<engineVars, persistent, budget, disk, now, lock, pc, frame, setLog, done>>

Cleanup ==
    /\ calls < budget
    /\ LET r == StoreCleanup(store, now)
       IN /\ store' = r.store
          /\ op' = [name |-> "cleanup", key |-> "", arg |-> "", ret |-> r.ret]
          /\ lastSet' = Surviving(lastSet, r.store)
    /\ calls' = calls + 1
    /\ UNCHANGED <<engineVars, persistent, budget, disk, now, lock, pc, frame, setLog, done>>

GetStats ==
    /\ calls < budget
    /\ op' = [name |-> "get_stats", key |-> "", arg |-> "", ret |-> GetStatsResult(store, now)]
    /\ calls' = calls + 1
    /\ UNCHANGED <<engineVars, store, persistent, budget, disk, now, lastSet, lock, pc, frame, setLog, done>>

\* The process ends and a new one constructs PersistentCache on the same directory.
Restart ==
    /\ calls < budget
    /\ persistent
    /\ \E ord \in Orderings(Loadable(disk, now)) :
          store' = [NewStore(store.max_size, store.default_ttl)
                        EXCEPT !.cache = LoadedCache(disk, now), !.order = ord]
    /\ disk' = LoadedDisk(disk, now)
    /\ op' = [name |-> "restart", key |-> "", arg |-> "", ret |-> ""]
    /\ lastSet' = NoSets
    /\ calls' = calls + 1
    /\ UNCHANGED <<engineVars, persistent, budget, now, lock, pc, frame, setLog, done>>

Tick ==
    /\ now < MaxTime
    /\ now' = now + 1
    /\ UNCHANGED <<engineVars, store, persistent, budget, disk, calls, op, lastSet, lock, pc, frame, setLog, done>>

Next ==
    \/ \E k \in Keys : Get(k)
    \/ \E k \in Keys, v \in Values, a \in TTLArgs : Set(k, v, a, "ok")
    \/ \E k \in Keys : Delete(k)
    \/ Clear
    \/ Cleanup
    \/ GetStats
    \/ Tick

Spec == Init /\ [][Next]_vars

(***************************************************************************)
(* SpecDisk: one caller of a PersistentCache, and restarts of the process. *)
(***************************************************************************)
InitDisk ==
    /\ \E m \in 0..MaxSizeDisk : store = NewStore(m, DefaultTTL)
    /\ persistent = TRUE
    /\ budget = MaxCallsDisk
    /\ disk = <<>>
    /\ now = 0
    /\ calls = 0
    /\ op = NoOp
    /\ lastSet = NoSets
    /\ ThreadsIdle
    /\ EngineIdle

NextDisk ==
    \/ \E k \in DiskKeys : Get(k)
    \/ \E k \in DiskKeys, v \in Values, a \in TTLArgs, how \in WriteOutcomes : Set(k, v, a, how)
    \/ \E k \in DiskKeys : Delete(k)
    \/ Clear
    \/ Cleanup
    \/ GetStats
    \/ Restart
    \/ Tick

SpecDisk == InitDisk /\ [][NextDisk]_vars


(***************************************************************************)
(* SpecConc: threads calling the methods of one shared store.  A thread    *)
(* enters a `with self._lock:` block by Acquire and leaves it with the     *)
(* block's last step; what a method does outside the block (the body of    *)
(* the wrapped function, _save_to_disk, the unlink of delete) are steps    *)
(* taken without the lock.                                                 *)
(***************************************************************************)
\* mutant of Released: the block is left with the lock still held
StillHeld(t) == t

\* the lock once thread t has left its `with self._lock:` block
Released(t) == NoThread

\* `ttl or CACHE_TTL` in the wrapper (the decorator's ttl is <<>> for None)
WrapperTTL(s, ttlArg) == IF ttlArg = <<>> \/ ttlArg[1] = 0 THEN s.default_ttl ELSE ttlArg[1]

\* the steps a thread takes inside a `with self._lock:` block
LockedSteps == {"get_body", "set_evict", "set_insert", "del_body", "blk_body"}

\* the steps of _save_to_disk that read self._cache
SaveReads == {"save_check", "save_dump"}

InitConc ==
    /\ \E m \in 0..MaxSizeConc : store = NewStore(m, DefaultTTL)
    /\ persistent \in BOOLEAN
    /\ budget = MaxCallsConc
    /\ disk = <<>>
    /\ now = 0
    /\ calls = 0
    /\ op = NoOp
    /\ lastSet = NoSets
    /\ ThreadsIdle
    /\ EngineIdle

\* thread t calls a method: its frame is set up and it goes to wait for the lock
Enter(t, name, k, v, ttl, first) ==
    /\ pc[t] = "idle"
    /\ calls < budget
    /\ calls' = calls + 1
    /\ frame' = [frame EXCEPT ![t] = [op |-> name, key |-> k, value |-> v, ttl |-> ttl,
                                      ret |-> "", fetched |-> FALSE, raised |-> FALSE]]
    /\ pc' = [pc EXCEPT ![t] = first]
    /\ UNCHANGED <<engineVars, store, persistent, budget, disk, now, op, lastSet, lock, setLog, done>>

CallGet(t, k) == Enter(t, "get", k, "", 0, "get_acquire")

CallSet(t, k, v, ttlArg) == Enter(t, "set", k, v, EffectiveTTL(store, ttlArg), "set_acquire")

CallDelete(t, k) == Enter(t, "delete", k, "", 0, "del_acquire")

\* a call of a function decorated with @cache_result(), whose cache key is k
CallWrapper(t, k) == Enter(t, "wrapper", k, "", WrapperTTL(store, <<>>), "get_acquire")

\* clear(), cleanup() or get_stats()
CallBlock(t, name) == Enter(t, name, "", "", 0, "blk_acquire")

\* `with self._lock:` is entered
Acquire(t) ==
    /\ pc[t] \in {"get_acquire", "set_acquire", "del_acquire", "blk_acquire"}
    /\ lock = NoThread
    /\ lock' = t
    /\ pc' = [pc EXCEPT ![t] = CASE pc[t] = "get_acquire" -> "get_body"
                                 [] pc[t] = "set_acquire" -> "set_evict"
                                 [] pc[t] = "del_acquire" -> "del_body"
                                 [] pc[t] = "blk_acquire" -> "blk_body"]
    /\ UNCHANGED <<engineVars, store, persistent, budget, disk, now, calls, op, lastSet, frame, setLog, done>>

\* the block of get; in the wrapper a result that is not None is returned, any other goes on to the function
GetBody(t) ==
    /\ pc[t] = "get_body"
    /\ LET r == StoreGet(store, frame[t].key, now)
       IN /\ store' = r.store
          /\ frame' = [frame EXCEPT ![t].ret = r.ret]
          /\ lastSet' = Surviving(lastSet, r.store)
          /\ pc' = [pc EXCEPT ![t] = IF frame[t].op = "wrapper" /\ r.ret = None
                                     THEN "w_fetch" ELSE "idle"]
    /\ lock' = Released(t)
    /\ done' = [done EXCEPT !.gets = @ + 1]
    /\ UNCHANGED <<engineVars, persistent, budget, disk, now, calls, op, setLog>>

\* `result = func(*args, **kwargs)` in the wrapper
Fetch(t, result) ==
    /\ pc[t] = "w_fetch"
    /\ frame' = [frame EXCEPT ![t].value = result, ![t].ret = result, ![t].fetched = TRUE]
    /\ pc' = [pc EXCEPT ![t] = "set_acquire"]
    /\ UNCHANGED <<engineVars, store, persistent, budget, disk, now, calls, op, lastSet, lock, setLog, done>>

\* the eviction of set
SetEvict(t) ==
    /\ pc[t] = "set_evict"
    /\ store' = IF MustEvict(store, frame[t].key) THEN EvictOldest(store) ELSE store
    /\ lastSet' = Surviving(lastSet, store')
    /\ pc' = [pc EXCEPT ![t] = "set_insert"]
    /\ UNCHANGED <<engineVars, persistent, budget, disk, now, calls, op, lock, frame, setLog, done>>

\* the rest of the block of set; a PersistentCache goes on to _save_to_disk
SetInsert(t) ==
    /\ pc[t] = "set_insert"
    /\ store' = InsertEntry(store, frame[t].key, NewEntry(frame[t].value, now, frame[t].ttl))
    /\ lastSet' = [lastSet EXCEPT ![frame[t].key] =
                       {[value |-> frame[t].value, ttl |-> frame[t].ttl, at |-> now]}]
    /\ setLog' = setLog \cup {[key |-> frame[t].key, value |-> frame[t].value,
                               ttl |-> frame[t].ttl, at |-> now]}
    /\ lock' = Released(t)
    /\ pc' = [pc EXCEPT ![t] = IF persistent THEN "save_check" ELSE "idle"]
    /\ done' = [done EXCEPT !.sets = @ + 1]
    /\ UNCHANGED <<engineVars, persistent, budget, disk, now, calls, op, frame>>

\* `if key in self._cache:` in _save_to_disk
SaveCheck(t) ==
    /\ pc[t] = "save_check"
    /\ pc' = [pc EXCEPT ![t] = IF frame[t].key \in DOMAIN store.cache THEN "save_open" ELSE "idle"]
    /\ UNCHANGED <<engineVars, store, persistent, budget, disk, now, calls, op, lastSet, lock, frame, setLog, done>>

\* `open(file_path, 'w')`: the file exists and is empty
SaveOpen(t) ==
    /\ pc[t] = "save_open"
    /\ disk' = Put(disk, frame[t].key, CorruptFile)
    /\ pc' = [pc EXCEPT ![t] = "save_dump"]
    /\ UNCHANGED <<engineVars, store, persistent, budget, now, calls, op, lastSet, lock, frame, setLog, done>>

\* `json.dump({'key': key, 'entry': self._cache[key]}, f)`; the KeyError of a
\* key deleted since the check is swallowed and leaves the file empty
SaveDump(t) ==
    /\ pc[t] = "save_dump"
    /\ disk' = IF frame[t].key \in DOMAIN store.cache
               THEN Put(disk, frame[t].key, CacheFile(frame[t].key, store.cache[frame[t].key]))
               ELSE disk
    /\ pc' = [pc EXCEPT ![t] = "idle"]
    /\ UNCHANGED <<engineVars, store, persistent, budget, now, calls, op, lastSet, lock, frame, setLog, done>>

\* the block of delete; a PersistentCache that deleted goes on to the file
DelBody(t) ==
    /\ pc[t] = "del_body"
    /\ LET r == StoreDelete(store, frame[t].key)
       IN /\ store' = r.store
          /\ frame' = [frame EXCEPT ![t].ret = r.ret]
          /\ lastSet' = Surviving(lastSet, r.store)
          /\ pc' = [pc EXCEPT ![t] = IF persistent /\ r.ret THEN "del_exists" ELSE "idle"]
    /\ lock' = Released(t)
    /\ UNCHANGED <<engineVars, persistent, budget, disk, now, calls, op, setLog, done>>

\* `if file_path.exists():` in PersistentCache.delete
DelExists(t) ==
    /\ pc[t] = "del_exists"
    /\ pc' = [pc EXCEPT ![t] = IF frame[t].key \in DOMAIN disk THEN "del_unlink" ELSE "idle"]
    /\ UNCHANGED <<engineVars, store, persistent, budget, disk, now, calls, op, lastSet, lock, frame, setLog, done>>

\* `file_path.unlink()`: FileNotFoundError if the file has gone since the test
DelUnlink(t) ==
    /\ pc[t] = "del_unlink"
    /\ disk' = Remove(disk, frame[t].key)
    /\ frame' = [frame EXCEPT ![t].raised = frame[t].key \notin DOMAIN disk]
    /\ pc' = [pc EXCEPT ![t] = "idle"]
    /\ UNCHANGED <<engineVars, store, persistent, budget, now, calls, op, lastSet, lock, setLog, done>>

\* the block of clear, cleanup or get_stats
BlkBody(t) ==
    /\ pc[t] = "blk_body"
    /\ LET r == CASE frame[t].op = "clear" -> [store |-> StoreClear(store), ret |-> ""]
                  [] frame[t].op = "cleanup" -> StoreCleanup(store, now)
                  [] frame[t].op = "get_stats" ->
                         [store |-> store, ret |-> GetStatsResult(store, now)]
       IN /\ store' = r.store
          /\ frame' = [frame EXCEPT ![t].ret = r.ret]
          /\ lastSet' = Surviving(lastSet, r.store)
    /\ lock' = Released(t)
    /\ pc' = [pc EXCEPT ![t] = "idle"]
    /\ UNCHANGED <<engineVars, persistent, budget, disk, now, calls, op, setLog, done>>

NextConc ==
    \/ \E t \in Threads, k \in ConcKeys : CallGet(t, k)
    \/ \E t \in Threads, k \in ConcKeys, v \in Values : CallSet(t, k, v, <<>>)
    \/ \E t \in Threads, k \in ConcKeys : CallDelete(t, k)
    \/ \E t \in Threads, k \in ConcKeys : CallWrapper(t, k)
    \/ \E t \in Threads, name \in {"clear", "cleanup", "get_stats"} : CallBlock(t, name)
    \/ \E t \in Threads : Acquire(t)
    \/ \E t \in Threads : GetBody(t)
    \/ \E t \in Threads, result \in FetchResults : Fetch(t, result)
    \/ \E t \in Threads : SetEvict(t)
    \/ \E t \in Threads : SetInsert(t)
    \/ \E t \in Threads : SaveCheck(t)
    \/ \E t \in Threads : SaveOpen(t)
    \/ \E t \in Threads : SaveDump(t)
    \/ \E t \in Threads : DelBody(t)
    \/ \E t \in Threads : DelExists(t)
    \/ \E t \in Threads : DelUnlink(t)
    \/ \E t \in Threads : BlkBody(t)
    \/ Tick

SpecConc == InitConc /\ [][NextConc]_vars

(***************************************************************************)
(* SpecKey: threads that call get and set on one and the same key.         *)
(***************************************************************************)
TheKey == "k1"

InitKey ==
    /\ \E m \in 0..MaxSizeConc : store = NewStore(m, DefaultTTL)
    /\ persistent \in BOOLEAN
    /\ budget = MaxCallsKey
    /\ disk = <<>>
    /\ now = 0
    /\ calls = 0
    /\ op = NoOp
    /\ lastSet = NoSets
    /\ ThreadsIdle
    /\ EngineIdle

NextKey ==
    \/ \E t \in Threads : CallGet(t, TheKey)
    \/ \E t \in Threads, v \in Values, a \in {<<>>, <<MaxTTL>>} : CallSet(t, TheKey, v, a)
    \/ \E t \in Threads : Acquire(t)
    \/ \E t \in Threads : GetBody(t)
    \/ \E t \in Threads : SetEvict(t)
    \/ \E t \in Threads : SetInsert(t)
    \/ \E t \in Threads : SaveCheck(t)
    \/ \E t \in Threads : SaveOpen(t)
    \/ \E t \in Threads : SaveDump(t)
    \/ Tick

SpecKey == InitKey /\ [][NextKey]_vars

(***************************************************************************)
(* Claims on the entry store (Spec).                                       *)
(***************************************************************************)
\* this step is a call of get(k)
GetStep(k) == calls' = calls + 1 /\ op'.name = "get" /\ op'.key = k

\* this step is a call of set(k, ...)
SetStep(k) == calls' = calls + 1 /\ op'.name = "set" /\ op'.key = k

\* C1: a get(k) on an entry whose expiry has been reached (now >= expiresAt,
\* the boundary now = expiresAt and ttl = 0 included) returns absent, never the
\* entry's value, and the miss counter grows by exactly one in that get.
C1_ExpiredNeverReturned ==
    [][\A k \in Keys :
          (GetStep(k) /\ k \in DOMAIN store.cache /\ now >= store.cache[k].expires)
              => (op'.ret = None /\ store'.misses = store.misses + 1)]_vars

\* C1 witness: set(k, v, ttl=0) and then get(k) at the same instant, which is
\* the boundary now = expiresAt: the get missed and purged the entry.
C1_Witness ==
    /\ op.name = "get" /\ op.ret = None /\ now = 0
    /\ calls = 2 /\ store.sets = 1 /\ store.misses = 1 /\ store.deletes = 1

\* C2: a get(k) after set(k, v, ttl) with ttl > 0, before ttl has elapsed and
\* with the entry not removed in between, returns exactly v, whatever calls
\* came before the set.
C2_SetThenGet ==
    [][\A k \in Keys :
          (GetStep(k) /\ lastSet[k] # {}
                      /\ \A ls \in lastSet[k] : ls.ttl > 0 /\ now < ls.at + ls.ttl)
              => \A ls \in lastSet[k] : op'.ret = ls.value]_vars

\* C2 witness: a get returned the tuple value, after a miss that came before
\* the set and with the clock advanced since the set.
C2_Witness ==
    /\ op.name = "get" /\ op.ret = "tuple_a" /\ store.hits = 1 /\ store.misses = 1
    /\ \E ls \in lastSet[op.key] : ls.at < now

\* C3: a store constructed empty never holds more than max_size entries,
\* for every max_size >= 0.
C3_SizeBound == Cardinality(DOMAIN store.cache) <= store.max_size

\* C4: a set of a new key on a store holding max_size entries removes exactly
\* one entry, one whose last_accessed is least, and leaves the others as they were.
C4_EvictsExactlyOneOldest ==
    [][\A k \in Keys :
          (SetStep(k) /\ k \notin DOMAIN store.cache
                      /\ Cardinality(DOMAIN store.cache) = store.max_size)
              => \E victim \in DOMAIN store.cache :
                    /\ \A o \in DOMAIN store.cache :
                          store.cache[victim].last_accessed <= store.cache[o].last_accessed
                    /\ DOMAIN store'.cache = (DOMAIN store.cache \ {victim}) \cup {k}
                    /\ \A o \in DOMAIN store.cache \ {victim} :
                          store'.cache[o] = store.cache[o]]_vars

(***************************************************************************)
(* Claims on the disk-backed store (SpecDisk).                             *)
(***************************************************************************)
\* this step constructs a fresh PersistentCache on the directory
RestartStep == calls' = calls + 1 /\ op'.name = "restart"

\* this step is a set whose durable write failed
FailedWriteStep == calls' = calls + 1 /\ op'.name = "set" /\ ~op'.arg.saved

\* C9: after set(k, v) whose record was written, a fresh store on the same
\* directory gives get(k) = v if the entry is unexpired at load time; if it
\* has expired, get(k) is absent and the durable record has been removed.
C9_RoundTrip ==
    [][(RestartStep /\ op.name = "set" /\ op.arg.saved)
          => IF now < op.arg.at + op.arg.ttl
             THEN StoreGet(store', op.key, now).ret = op.arg.value
             ELSE /\ StoreGet(store', op.key, now).ret = None
                  /\ op.key \notin DOMAIN disk']_vars

\* C10: with one caller, the keys that have a durable record are the keys
\* present in memory: no call whose durable write succeeds breaks the equality.
C10_DiskMirrorsMemory ==
    [][(DOMAIN disk = DOMAIN store.cache /\ ~FailedWriteStep)
          => DOMAIN disk' = DOMAIN store'.cache]_vars

(***************************************************************************)
(* Claims on the threads (SpecConc, SpecKey).                              *)
(***************************************************************************)
\* C5: every step that reads or writes the entry mapping or the counters,
\* the reads of _save_to_disk included, is taken by the thread that holds the
\* lock; no thread reads the mapping while another is between the eviction
\* and the insert of its set.
C5_AccessUnderLock ==
    /\ \A t \in Threads : pc[t] \in LockedSteps \cup SaveReads => lock = t
    /\ \A a, b \in Threads :
          (a # b /\ pc[a] = "set_insert") => pc[b] \notin LockedSteps \cup SaveReads

\* the set calls on key k that wrote the value, createdAt and expiresAt of entry e
WritersOf(k, e) ==
    {s \in setLog : /\ s.key = k /\ e.value = s.value
                    /\ e.created = s.at /\ e.expires = s.at + s.ttl}

\* a get that has returned gave absent or a value passed to a set on its key
ReturnsWholeValue ==
    \A t \in Threads :
        (pc[t] = "idle" /\ frame[t].op = "get")
            => \/ frame[t].ret = None
               \/ \E s \in setLog : s.key = frame[t].key /\ s.value = frame[t].ret

\* C6 as stated: the entry a get observes has value, createdAt, lastAccessedAt
\* and expiresAt all written by one and the same set.
C6_AllFieldsOfOneSet ==
    /\ ReturnsWholeValue
    /\ \A t \in Threads :
          (pc[t] = "get_body" /\ frame[t].key \in DOMAIN store.cache)
              => \E s \in WritersOf(frame[t].key, store.cache[frame[t].key]) :
                    store.cache[frame[t].key].last_accessed = s.at

\* C6 amended: the entry a get observes has value, createdAt and expiresAt
\* written by one and the same set; its lastAccessedAt is that set's time or
\* the time of a later hit.
C6_WholeEntryOfOneSet ==
    /\ ReturnsWholeValue
    /\ \A t \in Threads :
          (pc[t] = "get_body" /\ frame[t].key \in DOMAIN store.cache)
              => \E s \in WritersOf(frame[t].key, store.cache[frame[t].key]) :
                    /\ s.at <= store.cache[frame[t].key].last_accessed
                    /\ store.cache[frame[t].key].last_accessed <= now

\* C6 witness: a get observes an entry that an earlier hit has touched, while
\* the other thread has not yet returned from its set on the same key.
C6_Witness ==
    \E t, u \in Threads :
        /\ t # u
        /\ pc[t] = "get_body" /\ frame[t].key \in DOMAIN store.cache
        /\ store.cache[frame[t].key].last_accessed > store.cache[frame[t].key].created
        /\ pc[u] # "idle" /\ frame[u].op = "set" /\ frame[u].key = frame[t].key

\* C7: while the wrapped function runs in the wrapper, its thread does not
\* hold the lock, and whoever holds it is inside a block it will leave: other
\* threads' gets and sets go on.
C7_FetchOutsideLock ==
    \A t \in Threads :
        pc[t] = "w_fetch"
            => /\ lock # t
               /\ \A u \in Threads : lock = u => pc[u] \in LockedSteps

\* C7 witness: one thread is in the wrapped function and the other is inside
\* the block of its get, holding the lock.
C7_Witness ==
    \E t, u \in Threads :
        t # u /\ pc[t] = "w_fetch" /\ pc[u] = "get_body" /\ lock = u

\* both threads have returned from the wrapper, each after a miss on key k
BothMissed(k) ==
    \A t \in Threads :
        /\ pc[t] = "idle" /\ frame[t].op = "wrapper"
        /\ frame[t].key = k /\ frame[t].fetched

\* C8: once two threads that both missed on k have returned from the wrapper,
\* the store holds one entry for k, its value is that of the set that ran
\* last, and neither thread has raised.
C8_LastWriteWins ==
    \A k \in ConcKeys :
        BothMissed(k)
            => /\ k \in DOMAIN store.cache
               /\ Cardinality({i \in DOMAIN store.order : store.order[i] = k}) = 1
               /\ lastSet[k] # {}
               /\ \A ls \in lastSet[k] : store.cache[k].value = ls.value
               /\ \A t \in Threads : ~frame[t].raised

\* C8 witness: both threads missed before either wrote (two misses, no hit,
\* nothing removed), fetched different values, and have returned.
C8_Witness ==
    /\ BothMissed("k1")
    /\ frame["t1"].value = "list_a" /\ frame["t2"].value = "tuple_a"
    /\ store.misses = 2 /\ store.sets = 2 /\ store.hits = 0 /\ store.deletes = 0


(***************************************************************************)
(* SpecCrash: threads that set one and the same key of a PersistentCache,  *)
(* and crashes of the process.  A record longer than the buffer of the     *)
(* file object reaches the file in two write() calls, the head and the     *)
(* tail; each thread writes through its own file object, at its own        *)
(* offset, so the blocks of two threads overwrite each other one by one.   *)
(***************************************************************************)
MaxCallsCrash == 3     \* set calls and crashes of SpecCrash, all together

\* Values handed to set() by the threads of SpecCrash: two lists whose JSON
\* texts have the same length.
CrashValues == {"list_a", "list_b"}

\* the first block of the JSON text of a value ("list_ab" is the text made of
\* the head of list_a and the tail of list_b)
HeadOf(v) == IF v \in {"list_a", "list_ab"} THEN "list_a" ELSE "list_b"

\* the last block of the JSON text of a value
TailOf(v) == IF v \in {"list_a", "list_ba"} THEN "list_a" ELSE "list_b"

\* the value json.load reads from a head and a tail
Join(h, t) == IF h = t THEN h ELSE IF h = "list_a" THEN "list_ab" ELSE "list_ba"

\* a file that holds the head of a record and nothing readable after it
PartialFile(h) == [valid |-> FALSE, head |-> h]

\* a file whose head and tail are both written: the tail carries the numbers
TornFile(k, h, e) == [valid |-> TRUE, key |-> k, entry |-> [e EXCEPT !.value = Join(h, TailOf(@))]]

InitCrash ==
    /\ \E m \in 0..MaxSizeConc : store = NewStore(m, DefaultTTL)
    /\ persistent = TRUE
    /\ budget = MaxCallsCrash
    /\ disk = <<>>
    /\ now = 0
    /\ calls = 0
    /\ op = NoOp
    /\ lastSet = NoSets
    /\ ThreadsIdle
    /\ EngineIdle

\* json.dump of a long record, first write(): the entry is read and the head
\* of its text lands at offset 0 of the file
SaveHead(t) ==
    /\ pc[t] = "save_dump"
    /\ frame[t].key \in DOMAIN store.cache
    /\ frame[t].key \in DOMAIN disk
    /\ LET k == frame[t].key
           e == JsonEntry(store.cache[k])
       IN /\ frame' = [frame EXCEPT ![t].ret = e]
          /\ disk' = Put(disk, k, IF disk[k].valid
                                  THEN TornFile(k, HeadOf(e.value), disk[k].entry)
                                  ELSE PartialFile(HeadOf(e.value)))
    /\ pc' = [pc EXCEPT ![t] = "save_tail"]
    /\ UNCHANGED <<engineVars, store, persistent, budget, now, calls, op, lastSet, lock, setLog, done>>

\* json.dump of a long record, the write() at close: the tail lands after the
\* head that is in the file by now; after a truncation it lands after a hole
SaveTail(t) ==
    /\ pc[t] = "save_tail"
    /\ frame[t].key \in DOMAIN disk
    /\ LET k == frame[t].key
           e == frame[t].ret
       IN disk' = Put(disk, k, CASE disk[k].valid -> TornFile(k, HeadOf(disk[k].entry.value), e)
                                 [] "head" \in DOMAIN disk[k] -> TornFile(k, disk[k].head, e)
                                 [] OTHER -> CorruptFile)
    /\ pc' = [pc EXCEPT ![t] = "idle"]
    /\ UNCHANGED <<engineVars, store, persistent, budget, now, calls, op, lastSet, lock, frame, setLog, done>>

\* The process dies wherever its threads are, and a new one constructs
\* PersistentCache on the same directory.
Crash ==
    /\ calls < budget
    /\ persistent
    /\ \E ord \in Orderings(Loadable(disk, now)) :
          store' = [NewStore(store.max_size, store.default_ttl)
                        EXCEPT !.cache = LoadedCache(disk, now), !.order = ord]
    /\ disk' = LoadedDisk(disk, now)
    /\ op' = [name |-> "crash", key |-> "", arg |-> "", ret |-> ""]
    /\ lastSet' = NoSets
    /\ calls' = calls + 1
    /\ lock' = NoThread
    /\ pc' = [t \in Threads |-> "idle"]
    /\ frame' = [t \in Threads |-> IdleFrame]
    /\ UNCHANGED <<engineVars, persistent, budget, now, setLog, done>>

NextCrash ==
    \/ \E t \in Threads, v \in CrashValues : CallSet(t, TheKey, v, <<>>)
    \/ \E t \in Threads : Acquire(t)
    \/ \E t \in Threads : SetEvict(t)
    \/ \E t \in Threads : SetInsert(t)
    \/ \E t \in Threads : SaveCheck(t)
    \/ \E t \in Threads : SaveOpen(t)
    \/ \E t \in Threads : SaveDump(t)
    \/ \E t \in Threads : SaveHead(t)
    \/ \E t \in Threads : SaveTail(t)
    \/ Crash
    \/ Tick

SpecCrash == InitCrash /\ [][NextCrash]_vars

\* C11: a durable record for key k holds value v only if a set has made v
\* visible for k in memory before; this under concurrent sets on one key and
\* crashes between the two steps of a set.
C11_DurableNeverAhead ==
    \A k \in DOMAIN disk :
        disk[k].valid
            => \E s \in setLog : s.key = k /\ disk[k].entry.value = JsonValue(s.value)


(***************************************************************************)
(* Further claims on the disk-backed store (SpecDisk).                     *)
(***************************************************************************)
\* this step is a call of delete(k)
DeleteStep(k) == calls' = calls + 1 /\ op'.name = "delete" /\ op'.key = k

\* C12: with one caller, no durable record for k exists once delete(k) has
\* returned, whether or not k was present in memory when it was called.
C12_DeleteRemovesRecord ==
    [][\A k \in DiskKeys : DeleteStep(k) => k \notin DOMAIN disk']_vars

\* C14: a set(k, v) whose durable write fails returns normally, leaves v in
\* the entry of k and has counted one more set; the get(k) that follows it
\* before the expiry returns v.
C14_FailedWriteKeepsMemory ==
    [][\A k \in DiskKeys :
          /\ (FailedWriteStep /\ op'.key = k)
                => /\ op'.ret = ""
                   /\ k \in DOMAIN store'.cache
                   /\ store'.cache[k].value = op'.arg.value
                   /\ store'.sets = store.sets + 1
          /\ (GetStep(k) /\ op.name = "set" /\ op.key = k /\ ~op.arg.saved
                         /\ now < op.arg.at + op.arg.ttl)
                => op'.ret = op.arg.value]_vars

\* C14 witness: the one set made so far left no readable file for its key, the
\* clock has advanced since, and the get that followed returned the value.
C14_Witness ==
    /\ op.name = "get" /\ op.ret = "tuple_a" /\ now = 1
    /\ store.sets = 1 /\ store.hits = 1 /\ calls = 2
    /\ (op.key \in DOMAIN disk => ~disk[op.key].valid)


(***************************************************************************)
(* SpecLoad: PersistentCache is constructed on a directory that holds      *)
(* whatever files earlier processes, or anyone else, left in it.           *)
(***************************************************************************)
MaxCallsLoad == 2      \* constructions and get calls of SpecLoad, all together

\* a *.cache file that is JSON and has no 'entry'
NoEntryFile(k) == [valid |-> TRUE, key |-> k]

\* a *.cache file whose entry has no 'expires'
NoExpiresFile(k, v) == [valid |-> TRUE, key |-> k, entry |-> [value |-> v]]

\* a *.cache file whose entry has no 'value'
NoValueFile(k, expires) ==
    [valid |-> TRUE, key |-> k,
     entry |-> [expires |-> expires, created |-> 0, last_accessed |-> 0, access_count |-> 0]]

\* what the file of key k may be when the store is constructed
FilesOf(k) ==
    {CorruptFile, NoEntryFile(k), NoExpiresFile(k, "list_a"), NoValueFile(k, MaxTTL)}
        \cup {CacheFile(k, NewEntry("list_a", 0, ttl)) : ttl \in 1..MaxTTL}

\* the directories the store may be constructed on
Directories ==
    UNION {{d \in [S -> UNION {FilesOf(k) : k \in S}] : \A k \in S : d[k] \in FilesOf(k)} :
              S \in SUBSET DiskKeys}

InitLoad ==
    /\ \E m \in 0..MaxSizeDisk : store = NewStore(m, DefaultTTL)
    /\ persistent = TRUE
    /\ budget = MaxCallsLoad
    /\ disk \in Directories
    /\ now = 0
    /\ calls = 0
    /\ op = NoOp
    /\ lastSet = NoSets
    /\ ThreadsIdle
    /\ EngineIdle

NextLoad ==
    \/ Restart
    \/ \E k \in DiskKeys : Get(k)
    \/ Tick

SpecLoad == InitLoad /\ [][NextLoad]_vars

\* the file is a whole record: JSON, with a key and an entry of all five fields
WholeRecord(f) ==
    /\ f.valid
    /\ "entry" \in DOMAIN f
    /\ DOMAIN f.entry = {"value", "expires", "created", "last_accessed", "access_count"}

\* C13: the construction of a disk-backed store completes whatever the
\* directory holds; every record that is corrupt, unreadable or structurally
\* incomplete is deleted, and every valid unexpired record is loaded.
C13_LoadRecovers ==
    [][RestartStep
          => /\ \A k \in DOMAIN disk : ~WholeRecord(disk[k]) => k \notin DOMAIN disk'
             /\ \A k \in DOMAIN disk :
                   (WholeRecord(disk[k]) /\ now < disk[k].entry.expires)
                       => /\ k \in DOMAIN store'.cache
                          /\ store'.cache[k] = disk[k].entry]_vars


(***************************************************************************)
(* The holiday query engine, in its two implementations:                   *)
(*   "server"  src/src/server_fastmcp.py  (_holiday_cache, never expiring) *)
(*   "script"  src/scripts/holiday_query.py  (holiday_cache, cache_expiry) *)
(* A date is the number of its day, day 0 being the first day of year 0;   *)
(* a year has YearLen days.  The engine's clock stays within year 0, so    *)
(* that the current year is year 0 and the next year is year 1.            *)
(***************************************************************************)
YearLen == 3           \* days of a year
TicksPerDay == 2       \* clock ticks of a day, the 24 hours of cache_expiry
MaxRecords == 2        \* the longest 'days' list of a year file
MaxQueriesFeed == 2    \* queries made in SpecFeed
FirstWeekday == 4      \* the weekday of day 0 (0 is Monday): days 1 and 2 are a weekend

Impls == {"server", "script"}

Years == {0, 1}

\* the dates a query may name: the days of year 0 and the first day of year 1
Dates == 0..YearLen

\* The date strings a query may pass: a date written YYYY-MM-DD, with its
\* zeros, as the feed writes it, or without them ("2024-1-1"); strptime
\* reads both as the same day.
DateArgs == [day : Dates, padded : BOOLEAN]

\* The date strings that strptime rejects: a text with no year in it
\* ("garbage"), and a text that begins with year y and names no day of it
\* ("2024-13-45").
BadDates == {[text |-> "no year"]} \cup {[text |-> "no such day", year |-> y] : y \in Years}

\* datetime.strptime(date, "%Y-%m-%d") reads the string
Parses(date) == "day" \in DOMAIN date

\* `day.get('date') == date`, the comparison of the two strings
SameText(recordDate, date) == Parses(date) /\ date.padded /\ recordDate = date.day

\* int(date.split('-')[0])
YearOf(date) == date \div YearLen

\* The year a lookup asks the list of: date_obj.year in the server, which has
\* read the date by then; get_date_year in the script, which takes the text
\* before the first '-' and, where that is no number, the current year.
DateYear(date, c) ==
    IF Parses(date) THEN date.day \div YearLen
    ELSE IF "year" \in DOMAIN date THEN date.year ELSE (c \div TicksPerDay) \div YearLen

\* datetime.now().date(), pendulum.now('Asia/Shanghai').format('YYYY-MM-DD')
Today(c) == c \div TicksPerDay

\* date_obj.weekday()
Weekday(date) == (FirstWeekday + date) % 7

\* the last tick of year 0
LastTick == YearLen * TicksPerDay - 1

HolidayName == "NewYear"

\* one element of the 'days' list of a year file
DayRecord(date, isOffDay, name) == [date |-> date, isOffDay |-> isOffDay, name |-> name]

\* an element of the 'days' list that carries no isOffDay field
BareRecord(date, name) == [date |-> date, name |-> name]

\* day.get('isOffDay', default)
OffDay(day, default) == IF "isOffDay" \in DOMAIN day THEN day.isOffDay ELSE default

\* The dates a year file may hold: the file of a year follows the holidays of
\* that year, and a holiday of year y + 1 may begin on the last day of year y.
FileDates(y) == {d \in 1..YearLen : YearOf(d) = y \/ d = y * YearLen - 1}

\* the records a year file may hold: holidays with and without a name and,
\* in year 0, named compensatory workdays and named records with no isOffDay
RecordsOf(y) ==
    {DayRecord(d, TRUE, n) : d \in FileDates(y), n \in {"", HolidayName}}
        \cup (IF y = 0
              THEN {DayRecord(d, FALSE, HolidayName) : d \in FileDates(y)}
                      \cup {BareRecord(d, HolidayName) : d \in FileDates(y)}
              ELSE {})

\* the 'days' lists a year file may hold, in any order of dates
YearFiles(y) == UNION {[1..n -> RecordsOf(y)] : n \in 0..MaxRecords}

\* the short 'days' lists used where the content of the files matters little
SparseFiles(y) == {<<>>, <<DayRecord(y * YearLen + YearLen - 1, TRUE, HolidayName)>>}

\* response.json() of a 200 answer, and the None of a failed fetch
Data(days) == [ok |-> TRUE, days |-> days]

NoData == [ok |-> FALSE]

\* the test that serves a year from the cache
Fresh(im, cache, year, c) ==
    /\ year \in DOMAIN cache
    /\ (im = "server" \/ cache[year].expiry > c)

\* what fetch_holiday_data stores for a year
Cached(im, days, c) ==
    IF im = "server" THEN [data |-> days] ELSE [data |-> days, expiry |-> c + TicksPerDay]

\* mutant of AfterFailure: a failed fetch drops the copy it could not renew
AfterFailureDropped(cache, year) == [y \in DOMAIN cache \ {year} |-> cache[y]]

\* the cache once both URLs have failed: `continue`, `return None`
AfterFailure(cache, year) == cache

\* fetch_holiday_data(year); `file` is the year's file at the remote and `up`
\* says that one of the two URLs answers 200
FetchHolidayData(im, cache, year, c, file, up) ==
    IF Fresh(im, cache, year, c)
    THEN [cache |-> cache, data |-> Data(cache[year].data), remote |-> FALSE]
    ELSE IF up
         THEN [cache |-> Put(cache, year, Cached(im, file, c)), data |-> Data(file),
               remote |-> TRUE]
         ELSE [cache |-> AfterFailure(cache, year), data |-> NoData, remote |-> TRUE]

\* the element at the first of the positions I of a list (the element a loop
\* that tests and breaks stops at), as a list of one; the empty list if I is empty
FirstMatch(days, I) ==
    IF I = {} THEN <<>> ELSE <<days[CHOOSE i \in I : \A j \in I : i <= j]>>

\* `day.get('isOffDay', False) and day.get('name')`
IsNamedOffDay(day) == OffDay(day, FALSE) /\ day.name # ""

\* how a fetch ended, for the ghost
Avail(f) == IF f.data.ok THEN "ok" ELSE "unavailable"

\* the years whose remote file was asked for
Called(y0, f0, y1, f1) == {y \in {y0} : f0.remote} \cup {y \in {y1} : f1.remote}

\* the answer built from the record found
HolidayAnswer(day, today) ==
    [date |-> day.date, name |-> day.name, days_until |-> day.date - today]

\* next_holiday of server_fastmcp.py
NextHolidayServer(cache, c, files, up) ==
    LET today == Today(c)
        current_year == YearOf(today)
        next_year == current_year + 1
        f0 == FetchHolidayData("server", cache, current_year, c, files[current_year], up[current_year])
        found0 == IF f0.data.ok
                  THEN FirstMatch(f0.data.days,
                                  {i \in DOMAIN f0.data.days :
                                      IsNamedOffDay(f0.data.days[i]) /\ f0.data.days[i].date > today})
                  ELSE <<>>
        f1 == FetchHolidayData("server", f0.cache, next_year, c, files[next_year], up[next_year])
        found1 == IF f1.data.ok
                  THEN FirstMatch(f1.data.days,
                                  {i \in DOMAIN f1.data.days : IsNamedOffDay(f1.data.days[i])})
                  ELSE <<>>
    IN IF ~f0.data.ok
       THEN [cache |-> f0.cache, outcome |-> "DataUnavailable", value |-> <<>>,
             avail |-> (current_year :> "unavailable" @@ next_year :> "skipped"),
             called |-> {y \in {current_year} : f0.remote}]
       ELSE IF found0 # <<>>
       THEN [cache |-> f0.cache, outcome |-> "ok", value |-> HolidayAnswer(found0[1], today),
             avail |-> (current_year :> "ok" @@ next_year :> "skipped"),
             called |-> {y \in {current_year} : f0.remote}]
       ELSE [cache |-> f1.cache,
             outcome |-> IF found1 # <<>> THEN "ok" ELSE "NoUpcomingHoliday",
             value |-> IF found1 # <<>> THEN HolidayAnswer(found1[1], today) ELSE <<>>,
             avail |-> (current_year :> "ok" @@ next_year :> Avail(f1)),
             called |-> Called(current_year, f0, next_year, f1)]

\* get_next_holiday of holiday_query.py
NextHolidayScript(cache, c, files, up) ==
    LET current_date == Today(c)
        current_year == YearOf(current_date)
        next_year == current_year + 1
        f0 == FetchHolidayData("script", cache, current_year, c, files[current_year], up[current_year])
        f1 == FetchHolidayData("script", f0.cache, next_year, c, files[next_year], up[next_year])
        all_holidays ==
            (IF f0.data.ok THEN SelectSeq(f0.data.days, LAMBDA day : OffDay(day, FALSE)) ELSE <<>>)
                \o (IF f1.data.ok THEN SelectSeq(f1.data.days, LAMBDA day : OffDay(day, FALSE)) ELSE <<>>)
        next_holiday == FirstMatch(all_holidays,
                                   {i \in DOMAIN all_holidays : all_holidays[i].date > current_date})
    IN [cache |-> f1.cache,
        outcome |-> IF next_holiday # <<>> THEN "ok" ELSE "NoUpcomingHoliday",
        value |-> IF next_holiday # <<>> THEN HolidayAnswer(next_holiday[1], current_date) ELSE <<>>,
        avail |-> (current_year :> Avail(f0) @@ next_year :> Avail(f1)),
        called |-> Called(current_year, f0, next_year, f1)]

\* mutant of DayType: every day with a record is a holiday
DayTypeHoliday(is_holiday) == "holiday"

\* `"holiday" if is_holiday else "work"`
DayType(is_holiday) == IF is_holiday THEN "holiday" ELSE "work"

\* mutant of IsWeekend: Sunday alone is a weekend day
IsWeekendSunday(weekday) == weekday >= 6

\* `date_obj.weekday() >= 5`
IsWeekend(weekday) == weekday >= 5

\* holiday_info of server_fastmcp.py, which reads the date with strptime
\* before anything else, and get_holiday_info of holiday_query.py, which
\* reads it only once no record was found, inside its try
HolidayInfo(im, cache, c, date, file, up) ==
    IF im = "server" /\ ~Parses(date)
    THEN [cache |-> cache, outcome |-> "InvalidInput", value |-> <<>>,
          avail |-> <<>>, called |-> {}]
    ELSE
    LET year == DateYear(date, c)
        f == FetchHolidayData(im, cache, year, c, file, up)
        date_info == IF f.data.ok
                     THEN FirstMatch(f.data.days,
                                     {i \in DOMAIN f.data.days : SameText(f.data.days[i].date, date)})
                     ELSE <<>>
        is_holiday == OffDay(date_info[1], FALSE)
        is_weekend == IsWeekend(Weekday(date.day))
    IN [cache |-> f.cache,
        outcome |-> IF ~f.data.ok THEN "DataUnavailable"
                    ELSE IF date_info = <<>> /\ ~Parses(date) THEN "QueryFailed"
                    ELSE "ok",
        value |-> IF ~f.data.ok THEN <<>>
                  ELSE IF date_info # <<>>
                  THEN [name |-> date_info[1].name,
                        type |-> DayType(is_holiday),
                        is_holiday |-> is_holiday,
                        is_work_day |-> ~is_holiday]
                  ELSE IF ~Parses(date) THEN <<>>
                  ELSE [name |-> "normal day", type |-> "normal",
                        is_holiday |-> is_weekend, is_work_day |-> ~is_weekend],
        avail |-> (year :> Avail(f)),
        called |-> {y \in {year} : f.remote}]

\* what a list operation appends for a record it keeps
ListEntry(day) == [date |-> day.date, name |-> day.name]

\* the records current_year_holidays keeps: the server those that pass
\* `day.get('isOffDay', False) and day.get('name')`, the script those that
\* pass `day.get('isOffDay', False)`
KeepsHoliday(im, day) ==
    IF im = "server" THEN OffDay(day, FALSE) /\ day.name # "" ELSE OffDay(day, FALSE)

\* the records current_year_work_days keeps: the server those that pass
\* `not day.get('isOffDay', True) and day.get('name')`, the script those
\* that pass `not day.get('isOffDay', False) and day.get('name')`
KeepsWorkDay(im, day) ==
    IF im = "server"
    THEN ~OffDay(day, TRUE) /\ day.name # ""
    ELSE ~OffDay(day, FALSE) /\ day.name # ""

\* the answer of a list operation: the entries of the records kept, in the
\* order of the loop over holiday_data['days']
ListAnswer(f, kept, year) ==
    [cache |-> f.cache,
     outcome |-> IF f.data.ok THEN "ok" ELSE "DataUnavailable",
     value |-> IF f.data.ok THEN [i \in DOMAIN kept |-> ListEntry(kept[i])] ELSE <<>>,
     avail |-> (year :> Avail(f)),
     called |-> {y \in {year} : f.remote}]

\* current_year_holidays of server_fastmcp.py and get_current_year_holidays
\* of holiday_query.py
CurrentYearHolidays(im, cache, c, file, up) ==
    LET year == YearOf(Today(c))
        f == FetchHolidayData(im, cache, year, c, file, up)
        holidays == IF f.data.ok
                    THEN SelectSeq(f.data.days, LAMBDA day : KeepsHoliday(im, day))
                    ELSE <<>>
    IN ListAnswer(f, holidays, year)

\* current_year_work_days of server_fastmcp.py and get_current_year_work_days
\* of holiday_query.py
CurrentYearWorkDays(im, cache, c, file, up) ==
    LET year == YearOf(Today(c))
        f == FetchHolidayData(im, cache, year, c, file, up)
        work_days == IF f.data.ok
                     THEN SelectSeq(f.data.days, LAMBDA day : KeepsWorkDay(im, day))
                     ELSE <<>>
    IN ListAnswer(f, work_days, year)

\* the years a query obtained from the remote
Obtained(r) == {y \in r.called : r.avail[y] = "ok"}

\* the ghost of a query: what it was, when it ran, the years that had a copy
\* in the cache when it began, and what the engine gave back; besides, the
\* tick at which each year was last obtained from the remote, the age the
\* copies of the years it asked for had, and the years the query before it
\* failed to fetch
ReplyOf(name, arg, r) ==
    [op |-> name, arg |-> arg, left |-> reply.left - 1, at |-> clock, from |-> Today(clock),
     held |-> DOMAIN yearCache, called |-> r.called, avail |-> r.avail,
     outcome |-> r.outcome, value |-> r.value,
     fetched |-> [y \in DOMAIN reply.fetched \cup Obtained(r) |->
                     IF y \in Obtained(r) THEN clock ELSE reply.fetched[y]],
     age |-> [y \in DOMAIN r.avail \cap DOMAIN yearCache |-> clock - reply.fetched[y]],
     failed |-> IF reply.op = "none" THEN {}
                ELSE {y \in DOMAIN reply.avail : reply.avail[y] = "unavailable"}]

\* next_holiday(); files[y] is the file the remote holds for year y and
\* up[y] says whether the remote answers for year y
NextHoliday(files, up) ==
    /\ reply.left > 0
    /\ LET r == IF impl = "server"
                THEN NextHolidayServer(yearCache, clock, files, up)
                ELSE NextHolidayScript(yearCache, clock, files, up)
       IN /\ yearCache' = r.cache
          /\ reply' = ReplyOf("next_holiday", "", r)
    /\ UNCHANGED <<storeVars, impl, clock>>

\* holiday_info(date); file is the file the remote holds for the date's year
LookupDay(date, file, up) ==
    /\ reply.left > 0
    /\ LET r == HolidayInfo(impl, yearCache, clock, date, file, up)
       IN /\ yearCache' = r.cache
          /\ reply' = ReplyOf("holiday_info", date, r)
    /\ UNCHANGED <<storeVars, impl, clock>>

\* current_year_holidays(); file is the file the remote holds for this year
ListHolidays(file, up) ==
    /\ reply.left > 0
    /\ LET r == CurrentYearHolidays(impl, yearCache, clock, file, up)
       IN /\ yearCache' = r.cache
          /\ reply' = ReplyOf("current_year_holidays", "", r)
    /\ UNCHANGED <<storeVars, impl, clock>>

\* current_year_work_days(); file is the file the remote holds for this year
ListWorkDays(file, up) ==
    /\ reply.left > 0
    /\ LET r == CurrentYearWorkDays(impl, yearCache, clock, file, up)
       IN /\ yearCache' = r.cache
          /\ reply' = ReplyOf("current_year_work_days", "", r)
    /\ UNCHANGED <<storeVars, impl, clock>>

\* the engine's clock advances
TickClock ==
    /\ clock < LastTick
    /\ clock' = clock + 1
    /\ UNCHANGED <<storeVars, impl, yearCache, reply>>

\* the cache layer, which the engine leaves alone
StoreIdle ==
    /\ store = NewStore(0, DefaultTTL)
    /\ persistent = FALSE
    /\ budget = 0
    /\ disk = <<>>
    /\ now = 0
    /\ calls = 0
    /\ op = NoOp
    /\ lastSet = NoSets
    /\ ThreadsIdle

(***************************************************************************)
(* SpecEngine: the first query of an engine, on any files of the remote,   *)
(* at any day of year 0.                                                   *)
(***************************************************************************)
InitEngine ==
    /\ StoreIdle
    /\ impl \in Impls
    /\ yearCache = <<>>
    /\ clock \in {d * TicksPerDay : d \in 0..(YearLen - 1)}
    /\ reply = [NoReply EXCEPT !.left = 1]

NextEngine ==
    \/ /\ reply.left > 0
       /\ \E f0 \in YearFiles(0), f1 \in YearFiles(1), up \in [Years -> BOOLEAN] :
             NextHoliday(0 :> f0 @@ 1 :> f1, up)
    \/ /\ reply.left > 0
       /\ \E date \in DateArgs \cup BadDates, up \in BOOLEAN :
             \E file \in YearFiles(DateYear(date, clock)) : LookupDay(date, file, up)
    \/ /\ reply.left > 0
       /\ \E up \in BOOLEAN, file \in YearFiles(YearOf(Today(clock))) : ListHolidays(file, up)
    \/ /\ reply.left > 0
       /\ \E up \in BOOLEAN, file \in YearFiles(YearOf(Today(clock))) : ListWorkDays(file, up)

SpecEngine == InitEngine /\ [][NextEngine]_vars

(***************************************************************************)
(* SpecFeed: queries on a feed that comes and goes, as time passes.        *)
(***************************************************************************)
\* the date strings of the queries on the feed: those written as the feed
\* writes them, and those that are no dates
FeedDates == {date \in DateArgs : date.padded} \cup BadDates

InitFeed ==
    /\ StoreIdle
    /\ impl \in Impls
    /\ yearCache = <<>>
    /\ clock = 0
    /\ reply = [NoReply EXCEPT !.left = MaxQueriesFeed]

NextFeed ==
    \/ /\ reply.left > 0
       /\ \E f0 \in SparseFiles(0), f1 \in SparseFiles(1), up \in [Years -> BOOLEAN] :
             NextHoliday(0 :> f0 @@ 1 :> f1, up)
    \/ /\ reply.left > 0
       /\ \E date \in FeedDates, up \in BOOLEAN :
             \E file \in SparseFiles(DateYear(date, clock)) : LookupDay(date, file, up)
    \/ /\ reply.left > 0
       /\ \E up \in BOOLEAN, file \in SparseFiles(YearOf(Today(clock))) : ListHolidays(file, up)
    \/ /\ reply.left > 0
       /\ \E up \in BOOLEAN, file \in SparseFiles(YearOf(Today(clock))) : ListWorkDays(file, up)
    \/ TickClock

SpecFeed == InitFeed /\ [][NextFeed]_vars


(***************************************************************************)
(* Claims on the holiday engine (SpecEngine, SpecFeed).                    *)
(***************************************************************************)
\* the list the last query had for year y
ListOf(y) == yearCache[y].data

\* the records of a list that are holidays with a name
NamedOffDays(days) == {r \in Range(days) : IsNamedOffDay(r)}

\* the answer names a record of Q whose date is the least of Q
AnswersEarliest(Q) ==
    /\ reply.outcome = "ok"
    /\ \E r \in Q : /\ \A q \in Q : r.date <= q.date
                    /\ reply.value.date = r.date
                    /\ reply.value.name = r.name

\* C15: next_holiday returns the record of least date among the named
\* holidays of the current year's list that lie after today; if there is
\* none, the named holiday of least date of the next year's list; and this
\* for every order of the records.
C15_NextHolidayIsEarliest ==
    (reply.op = "next_holiday" /\ reply.avail[YearOf(reply.from)] = "ok")
        => LET current_year == YearOf(reply.from)
               Q0 == {r \in NamedOffDays(ListOf(current_year)) : r.date > reply.from}
           IN IF Q0 # {}
              THEN AnswersEarliest(Q0)
              ELSE (/\ reply.avail[current_year + 1] = "ok"
                    /\ NamedOffDays(ListOf(current_year + 1)) # {})
                       => AnswersEarliest(NamedOffDays(ListOf(current_year + 1)))

\* C16: days_until of a next_holiday answer is the number of days from today
\* to the date returned, and is at least 1, also across the year boundary.
C16_DaysUntil ==
    (reply.op = "next_holiday" /\ reply.outcome = "ok")
        => /\ reply.value.days_until = reply.value.date - reply.from
           /\ reply.value.days_until >= 1

\* C17: with no copy of the current or of the next year in the cache and no
\* year obtained from the remote, next_holiday answers DataUnavailable.
C17_TotalUnavailability ==
    (/\ reply.op = "next_holiday"
     /\ reply.held = {}
     /\ \A y \in DOMAIN reply.avail : reply.avail[y] # "ok")
        => reply.outcome = "DataUnavailable"

\* C18: next_holiday answers NoUpcomingHoliday only if the lists of both the
\* current and the next year were available.
C18_NoUpcomingNeedsBothYears ==
    (reply.op = "next_holiday" /\ reply.outcome = "NoUpcomingHoliday")
        => \A y \in DOMAIN reply.avail : reply.avail[y] = "ok"

\* C19: holiday_info answers DataUnavailable exactly when the remote fetch of
\* the date's year failed and the cache held no copy of the year, a stale
\* copy counting as a copy.
C19_UnavailableOnlyWithoutCopy ==
    (reply.op = "holiday_info" /\ Parses(reply.arg))
        => LET year == YearOf(reply.arg.day)
           IN (reply.outcome = "DataUnavailable")
                 <=> (/\ year \in reply.called
                      /\ reply.avail[year] = "unavailable"
                      /\ year \notin reply.held)

C21_OrdinaryDay ==
    (/\ reply.op = "holiday_info"
     /\ Parses(reply.arg)
     /\ reply.avail[YearOf(reply.arg.day)] = "ok"
     /\ \A r \in Range(ListOf(YearOf(reply.arg.day))) : ~SameText(r.date, reply.arg))
        => /\ reply.outcome = "ok"
           /\ reply.value.name = "normal day"
           /\ reply.value.type = "normal"
           /\ reply.value.is_holiday = (Weekday(reply.arg.day) \in {5, 6})
           /\ reply.value.is_work_day = ~reply.value.is_holiday

\* C21 witness: a Saturday or Sunday with no record, in a year whose list
\* has records of other days, was answered as an ordinary day off.
C21_Witness ==
    /\ reply.op = "holiday_info" /\ reply.outcome = "ok"
    /\ Parses(reply.arg)
    /\ reply.value.type = "normal" /\ reply.value.is_holiday /\ ~reply.value.is_work_day
    /\ Weekday(reply.arg.day) = 5
    /\ ListOf(YearOf(reply.arg.day)) # <<>>
    /\ \A r \in Range(ListOf(YearOf(reply.arg.day))) : r.date # reply.arg.day

\* the number of times each element occurs in a list
Occurrences(seq) == [x \in Range(seq) |-> Cardinality({i \in DOMAIN seq : seq[i] = x})]

\* the entries of the records of a list that carry isOffDay = wanted and a
\* name that is not empty
EntriesWith(days, wanted) ==
    LET kept == SelectSeq(days, LAMBDA day : /\ "isOffDay" \in DOMAIN day
                                            /\ day.isOffDay = wanted
                                            /\ day.name # "")
    IN [i \in DOMAIN kept |-> [date |-> kept[i].date, name |-> kept[i].name]]

\* C22: current_year_holidays returns exactly the records of the year's list
\* with isOffDay true and a name that is not empty, each as often as the
\* list holds it.
C22_HolidaysExactly ==
    (reply.op = "current_year_holidays" /\ reply.outcome = "ok")
        => Occurrences(reply.value)
              = Occurrences(EntriesWith(ListOf(YearOf(reply.from)), TRUE))

\* C23: the list current_year_holidays returns is in ascending order of
\* date, whatever the order of the feed.
C23_HolidaysAscending ==
    (reply.op = "current_year_holidays" /\ reply.outcome = "ok")
        => \A i, j \in DOMAIN reply.value :
              i < j => reply.value[i].date <= reply.value[j].date

\* C24: current_year_work_days returns exactly the records of the year's
\* list with isOffDay false and a name that is not empty, never a record
\* with no isOffDay, and so the same list in both implementations.
C24_WorkDaysExactly ==
    (reply.op = "current_year_work_days" /\ reply.outcome = "ok")
        => Occurrences(reply.value)
              = Occurrences(EntriesWith(ListOf(YearOf(reply.from)), FALSE))

\* C25: a year's list in the engine's cache is served for at most 24 hours:
\* a query that asks for a year whose copy was obtained more than 24 hours
\* before goes to the remote for it, whatever the year.
C25_NoYearCachedForever ==
    reply.op # "none"
        => \A y \in DOMAIN reply.age :
              (reply.avail[y] # "skipped" /\ reply.age[y] > TicksPerDay) => y \in reply.called

\* C26: holiday_info on a date string that is no date answers InvalidInput,
\* and asks for the list of no year, neither the cache nor the remote.
C26_MalformedDateRejected ==
    (reply.op = "holiday_info" /\ ~Parses(reply.arg))
        => /\ reply.outcome = "InvalidInput"
           /\ reply.called = {}
           /\ DOMAIN reply.avail = {}

\* the queries that succeed once the list of their year is there
SucceedsOnData(r) ==
    \/ r.op \in {"current_year_holidays", "current_year_work_days"}
    \/ r.op = "holiday_info" /\ Parses(r.arg)

\* C27: a query whose fetch of a year fails leaves the cache as it was for
\* that year and takes no other year out of it; a query that asks for a year
\* the cache has no copy of goes to the remote; and when the remote then
\* answers, the year is in the cache and the query succeeds.
C27_FailedFetchRecoverable ==
    [][reply' # reply
          => /\ DOMAIN yearCache \subseteq DOMAIN yearCache'
             /\ \A y \in DOMAIN reply'.avail :
                   /\ reply'.avail[y] = "unavailable"
                         => /\ y \in DOMAIN yearCache' => y \in DOMAIN yearCache
                            /\ y \in DOMAIN yearCache => yearCache'[y] = yearCache[y]
                   /\ (y \notin DOMAIN yearCache /\ reply'.avail[y] # "skipped")
                         => y \in reply'.called
                   /\ (y \in reply'.called /\ reply'.avail[y] = "ok")
                         => /\ y \in DOMAIN yearCache'
                            /\ SucceedsOnData(reply') => reply'.outcome = "ok"]_vars

\* C27 witness: a lookup found its year at the remote and cached it, after
\* the query before it had failed to fetch that year and had left no copy.
C27_Witness ==
    /\ reply.op = "holiday_info" /\ Parses(reply.arg) /\ reply.outcome = "ok"
    /\ LET y == YearOf(reply.arg.day)
       IN /\ y \in reply.failed
          /\ y \notin reply.held
          /\ y \in reply.called /\ reply.avail[y] = "ok"
          /\ y \in DOMAIN yearCache

(***************************************************************************)
(* Further claims on the store (Spec).                                     *)
(***************************************************************************)
\* get(k) finds an entry that has not expired
HitStep(k) == GetStep(k) /\ k \in DOMAIN store.cache /\ now < store.cache[k].expires

\* C28: a get that hits sets the entry's last_accessed to the current time,
\* adds one to its access_count and adds one to the hit counter.
C28_HitCountsAccess ==
    [][\A k \in Keys :
          HitStep(k)
             => /\ store'.cache[k].last_accessed = now
                /\ store'.cache[k].access_count = store.cache[k].access_count + 1
                /\ store'.hits = store.hits + 1]_vars

\* C29: get(k) on an entry that is present and expired removes the entry,
\* adds one to the delete counter and one to the miss counter, leaves the
\* hit counter and every other entry as they were, and returns None.
C29_ExpiredGet ==
    [][\A k \in Keys :
          (GetStep(k) /\ k \in DOMAIN store.cache /\ now >= store.cache[k].expires)
             => /\ DOMAIN store'.cache = DOMAIN store.cache \ {k}
                /\ \A j \in DOMAIN store'.cache : store'.cache[j] = store.cache[j]
                /\ store'.deletes = store.deletes + 1
                /\ store'.misses = store.misses + 1
                /\ store'.hits = store.hits
                /\ op'.ret = None]_vars

\* C29 witness: of two entries set, a get found one expired and removed it,
\* and the other is still there.
C29_Witness ==
    /\ op.name = "get" /\ op.ret = None
    /\ store.max_size = 2 /\ store.sets = 2
    /\ store.deletes = 1 /\ store.misses = 1 /\ store.hits = 0
    /\ Cardinality(DOMAIN store.cache) = 1
    /\ op.key \notin DOMAIN store.cache

\* C30: set(k, v) on a key the store holds replaces the entry and evicts
\* nothing, also in a full store: the keys and the delete counter are as
\* before, every other entry is as before, and the entry of k has the
\* value given and created, last_accessed and expires of this set.
C30_OverwriteEvictsNothing ==
    [][\A k \in Keys :
          (SetStep(k) /\ k \in DOMAIN store.cache)
             => /\ DOMAIN store'.cache = DOMAIN store.cache
                /\ store'.deletes = store.deletes
                /\ \A j \in DOMAIN store.cache \ {k} : store'.cache[j] = store.cache[j]
                /\ store'.cache[k].value = op'.arg.value
                /\ store'.cache[k].created = now
                /\ store'.cache[k].last_accessed = now
                /\ store'.cache[k].expires = now + op'.arg.ttl]_vars

\* C30 witness: a store of max_size 1 took two sets and evicted nothing: the
\* second set replaced the entry of the first, in a full store.
C30_Witness ==
    /\ op.name = "set"
    /\ store.max_size = 1 /\ store.sets = 2 /\ store.deletes = 0
    /\ DOMAIN store.cache = {op.key}
    /\ now = 1 /\ store.cache[op.key].created = 1
    /\ store.cache[op.key].value = op.arg.value

\* this step is a call of clear(), of cleanup(), of get_stats()
ClearStep == calls' = calls + 1 /\ op'.name = "clear"

CleanupStep == calls' = calls + 1 /\ op'.name = "cleanup"

StatsStep == calls' = calls + 1 /\ op'.name = "get_stats"

\* the entries of s whose expires has been reached at time t
Lapsed(s, t) == {k \in DOMAIN s.cache : t >= s.cache[k].expires}

\* C31: clear() leaves no entry and adds to the delete counter the number of
\* entries that were there, expired ones included; a get that follows it
\* returns None.
C31_ClearEmpties ==
    [][/\ ClearStep => /\ DOMAIN store'.cache = {}
                       /\ store'.deletes = store.deletes + Cardinality(DOMAIN store.cache)
       /\ \A k \in Keys : (op.name = "clear" /\ GetStep(k)) => op'.ret = None]_vars

\* C31 witness: clear() removed two entries, one of them expired by then.
C31_Witness ==
    /\ op.name = "clear" /\ DOMAIN store.cache = {}
    /\ store.sets = 2 /\ store.deletes = 2 /\ store.max_size = 2 /\ now = 1

\* C32: cleanup() removes exactly the entries whose expires has been
\* reached, returns their number, adds it to the delete counter, leaves
\* hits, misses and sets alone, and leaves no expired entry for get_stats.
C32_CleanupExact ==
    [][CleanupStep
          => /\ DOMAIN store'.cache = DOMAIN store.cache \ Lapsed(store, now)
             /\ \A k \in DOMAIN store'.cache : store'.cache[k] = store.cache[k]
             /\ op'.ret = Cardinality(Lapsed(store, now))
             /\ store'.deletes = store.deletes + Cardinality(Lapsed(store, now))
             /\ store'.hits = store.hits
             /\ store'.misses = store.misses
             /\ store'.sets = store.sets
             /\ GetStatsResult(store', now').expired_entries = 0]_vars

\* C32 witness: of two entries cleanup() removed the one that had expired
\* and kept the other.
C32_Witness ==
    /\ op.name = "cleanup" /\ op.ret = 1
    /\ store.sets = 2 /\ store.deletes = 1
    /\ Cardinality(DOMAIN store.cache) = 1

\* the four counters of s are at least those of r
CountersAtLeast(s, r) ==
    /\ s.hits >= r.hits
    /\ s.misses >= r.misses
    /\ s.sets >= r.sets
    /\ s.deletes >= r.deletes

\* C33 as stated: the counters never decrease under get, set, delete and
\* cleanup, and clear() is the operation that resets them.
C33_ResetByClear ==
    [][/\ ~ClearStep => CountersAtLeast(store', store)
       /\ ClearStep => (store'.hits = 0 /\ store'.misses = 0 /\ store'.sets = 0)]_vars

\* C33 amended: the counters never decrease under any operation of the
\* store, clear() included: clear() leaves hits, misses and sets as they are
\* and adds to deletes, and no operation resets them.
C33_NeverDecrease ==
    [][/\ CountersAtLeast(store', store)
       /\ ClearStep => /\ store'.hits = store.hits
                       /\ store'.misses = store.misses
                       /\ store'.sets = store.sets]_vars

\* C33 witness: after a set and a hit, clear() left the counters standing.
C33_Witness ==
    /\ op.name = "clear"
    /\ store.sets = 1 /\ store.hits = 1 /\ store.deletes = 1

\* C34: get_stats() reports total_entries as the number of entries,
\* expired_entries as the number of entries whose expires has been reached,
\* active_entries as the rest, hit_rate as hits / (hits + misses) and as 0
\* before any get; and it changes no entry and no counter.
C34_StatsConsistent ==
    [][StatsStep
          => /\ op'.ret.total_entries = Cardinality(DOMAIN store.cache)
             /\ op'.ret.expired_entries = Cardinality(Lapsed(store, now))
             /\ op'.ret.active_entries + op'.ret.expired_entries = op'.ret.total_entries
             /\ op'.ret.hit_rate = (IF store.hits + store.misses = 0 THEN <<0, 1>>
                                    ELSE <<store.hits, store.hits + store.misses>>)
             /\ store' = store]_vars

\* C34 witness: get_stats() on a store with one expired entry, after a hit.
C34_Witness ==
    /\ op.name = "get_stats"
    /\ op.ret.expired_entries = 1 /\ op.ret.active_entries = 0
    /\ op.ret.hit_rate = <<1, 1>>

\* C40: in a store constructed empty every entry that leaves the dict is
\* counted as a delete, whichever way it leaves: at each step the number of
\* entries plus the delete counter grows by one if the step is a set of a key
\* that was not there, and stays as it was otherwise; hence the number of
\* entries plus deletes is never above sets.
C40_DeletesCountRemovals ==
    [][/\ (Cardinality(DOMAIN store'.cache) + store'.deletes)
             - (Cardinality(DOMAIN store.cache) + store.deletes)
          = (IF \E k \in Keys : SetStep(k) /\ k \notin DOMAIN store.cache THEN 1 ELSE 0)
       /\ Cardinality(DOMAIN store'.cache) + store'.deletes <= store'.sets]_vars

\* C40 witness: a full store took the set of a new key, which evicted an
\* entry; then a get purged the new entry, which had expired.
C40_Witness ==
    /\ op.name = "get" /\ op.ret = None
    /\ store.max_size = 1 /\ store.sets = 2 /\ store.deletes = 2
    /\ DOMAIN store.cache = {}

(***************************************************************************)
(* Further claims on the shared store (SpecConc).                          *)
(***************************************************************************)
\* every thread has returned from its call
AllReturned == \A t \in Threads : pc[t] = "idle"

\* C35: on a PersistentCache, once a set(k, v) and a delete(k) made by two
\* threads have both returned, k has a file exactly if the store has an entry
\* for k, and the file is one that json.load reads.
C35_SetDeleteDurable ==
    (/\ persistent
     /\ AllReturned
     /\ calls = 2
     /\ \E t, u \in Threads : /\ frame[t].op = "set"
                              /\ frame[u].op = "delete"
                              /\ frame[t].key = frame[u].key)
        => \A t \in Threads :
              /\ frame[t].key \in DOMAIN disk <=> frame[t].key \in DOMAIN store.cache
              /\ frame[t].key \in DOMAIN disk => disk[frame[t].key].valid

\* C39: hits + misses is the number of get calls that have run and sets is
\* the number of set calls that have run, under every interleaving of the
\* threads.
C39_NoLostCount ==
    /\ store.hits + store.misses = done.gets
    /\ store.sets = done.sets

\* C39 witness: two threads, one in set and one in get on the same key,
\* have both run, and the get hit.
C39_Witness ==
    /\ AllReturned
    /\ \E t, u \in Threads : /\ frame[t].op = "set"
                             /\ frame[u].op = "get"
                             /\ frame[t].key = frame[u].key
    /\ done.gets = 1 /\ done.sets = 1 /\ store.hits = 1

\* C36: a PersistentCache constructed with max_size = N holds at most N
\* entries once constructed, whatever the number of valid unexpired records
\* of its directory, and after every later operation.
C36_LoadKeepsBound ==
    op.name # "init" => Cardinality(DOMAIN store.cache) <= store.max_size

\* C37: a call of the wrapper whose get finds a result stored and not
\* expired returns that result and does not go on to the wrapped function,
\* whatever the result stored, None included.
C37_StoredResultServed ==
    [][\A t \in Threads :
          (/\ pc[t] = "get_body" /\ pc'[t] # "get_body"
           /\ frame[t].op = "wrapper"
           /\ frame[t].key \in DOMAIN store.cache
           /\ now < store.cache[frame[t].key].expires)
             => /\ pc'[t] = "idle"
                /\ frame'[t].ret = store.cache[frame[t].key].value]_vars

(***************************************************************************)
(* SpecWrap: one caller of functions decorated with @cache_result(), with  *)
(* the default derivation of the cache key from the call.                  *)
(***************************************************************************)
MaxArgs == 2           \* the largest number of positional arguments of a call
MaxCallsWrap == 2      \* calls made by the single caller of SpecWrap

\* f"{func.__module__}.{func.__name__}" of the decorated functions
FuncNames == {"m.f", "m.g"}

\* str(arg) of the values passed as arguments
ArgStrings == {"a", "b", "a_b"}

\* *args
ArgLists == UNION {[1..n -> ArgStrings] : n \in 0..MaxArgs}

\* sorted(kwargs.items())
KwArgLists == {<<>>, <<[name |-> "x", value |-> "a"]>>}

\* the calls of the decorated functions
WrapCalls == [func : FuncNames, args : ArgLists, kwargs : KwArgLists]

\* sep.join(strs)
RECURSIVE JoinStrings(_, _)
JoinStrings(strs, sep) ==
    IF strs = <<>> THEN ""
    ELSE IF Len(strs) = 1 THEN strs[1]
    ELSE strs[1] \o sep \o JoinStrings(Tail(strs), sep)

\* the cache_key of the wrapper, with no key_func
CacheKey(call) ==
    LET args_str == JoinStrings(call.args, "_")
        kwargs_str == JoinStrings([i \in DOMAIN call.kwargs |->
                                      call.kwargs[i].name \o "=" \o call.kwargs[i].value], "_")
    IN call.func \o ":" \o args_str \o ":" \o kwargs_str

\* func(*args, **kwargs): the result of a call is the call written out, so
\* that the results of two calls are the same only if the calls are
ResultOf(call) ==
    call.func \o "("
        \o JoinStrings([i \in DOMAIN call.args |-> "'" \o call.args[i] \o "'"], ", ")
        \o "; "
        \o JoinStrings([i \in DOMAIN call.kwargs |->
                            call.kwargs[i].name \o "='" \o call.kwargs[i].value \o "'"], ", ")
        \o ")"

\* the wrapper of cache_result, around one call of a decorated function
WrapperCall(call) ==
    /\ calls < budget
    /\ LET cache_key == CacheKey(call)
           g == StoreGet(store, cache_key, now)
           result == ResultOf(call)
       IN IF g.ret # None
          THEN /\ store' = g.store
               /\ op' = [name |-> "wrapper", key |-> cache_key, arg |-> call, ret |-> g.ret]
          ELSE /\ store' = StoreSet(g.store, cache_key, result, WrapperTTL(store, <<>>), now)
               /\ op' = [name |-> "wrapper", key |-> cache_key, arg |-> call, ret |-> result]
    /\ calls' = calls + 1
    /\ UNCHANGED <<engineVars, persistent, budget, disk, now, lastSet, threadVars>>

InitWrap ==
    /\ store = NewStore(MaxCallsWrap, DefaultTTL)
    /\ persistent = FALSE
    /\ budget = MaxCallsWrap
    /\ disk = <<>>
    /\ now = 0
    /\ calls = 0
    /\ op = NoOp
    /\ lastSet = NoSets
    /\ ThreadsIdle
    /\ EngineIdle

NextWrap ==
    \/ \E call \in WrapCalls : WrapperCall(call)
    \/ Tick

SpecWrap == InitWrap /\ [][NextWrap]_vars

\* C38: the wrapper returns to a call the result computed for that call's
\* function and arguments, never one computed for another call: two calls
\* that differ have cache keys that differ.
C38_KeysTellCallsApart ==
    op.name = "wrapper" => op.ret = ResultOf(op.arg)

=============================================================================
